---- MODULE Spec2Model ----
(***************************************************************************)
(* Model of narthex-web-app, src/lib.rs: UserData::run_engine_with_webview *)
(* drives one web_view window over one engine.  The engine, serde and the  *)
(* web_view event loop are the environment: every result they can return   *)
(* is a nondeterministic choice.  The event loop is modelled by the        *)
(* contract of WebView::run: it dispatches one event per step, returns     *)
(* the user data once the window has been told to exit, and returns the    *)
(* handler's failure when the handler returned one.  A panic inside the    *)
(* handler ends the process (pc = "aborted").                              *)
(*                                                                         *)
(* Text is a sequence of pieces: a piece is either one of the characters   *)
(* that some encoder treats specially, or a run of ordinary characters.    *)
(***************************************************************************)
EXTENDS Naturals, Sequences, FiniteSets

VARIABLES
    pc,         \* position of run_engine_with_webview / of the handler
    params,     \* the WebParams passed to run_engine_with_webview
    errShutdown,\* the engine's shutdown_required() for new_with_error responses
    html,       \* value bound to initial_html (line 64)
    window,     \* the window built by web_view::builder() (lines 65-120)
    arg,        \* handler argument: the raw message of the page
    action,     \* handler local `action` (line 73)
    response,   \* handler local `response` (line 83)
    result,     \* value returned by the handler, kept by the event loop
    shouldExit, \* the window has been told to close (exit() or the user)
    delivered,  \* number of page messages dispatched so far
    posted,     \* number of messages the page has posted so far
    runResult,  \* what run_engine_with_webview returned, once it has
    trace       \* every call made to the engine, the page, the log, the window

vars == <<pc, params, errShutdown, html, window, arg, action, response,
          result, shouldExit, delivered, posted, runResult, trace>>

\* ---------------------------------------------------------------- bounds
MaxMessages == 2

\* ------------------------------------------------------------ characters
BS == "\\"
SQ == "'"
DQ == "\""
NL == "\n"

\* s occurs in t as a contiguous run of pieces
Contains(t, s) ==
    \E i \in 0..(Len(t) - Len(s)) : SubSeq(t, i + 1, i + Len(s)) = s

\* ------------------------------------------------------------ parameters
DefaultParams ==
    [title |-> "App", debug |-> FALSE, width |-> 640, height |-> 960,
     verbose |-> FALSE]

ParamsSet ==
    {DefaultParams,
     [title |-> "Wumpus", debug |-> TRUE, width |-> 800, height |-> 600,
      verbose |-> TRUE]}

NoWindow ==
    [title |-> "", content |-> "", width |-> 0, height |-> 0,
     resizable |-> FALSE, debug |-> FALSE, built |-> FALSE]

\* mutant: .size(params.height, params.width)
BuildWindowSwapsSize(p, content) ==
    [title |-> p.title, content |-> content, width |-> p.height,
     height |-> p.width, resizable |-> TRUE, debug |-> p.debug,
     built |-> TRUE]

BuildWindow(p, content) ==
    [title |-> p.title, content |-> content, width |-> p.width,
     height |-> p.height, resizable |-> TRUE, debug |-> p.debug,
     built |-> TRUE]

\* ---------------------------------------------------------------- errors
\* an anyhow::Error: its message and the message of its cause (<<>>: none)
Errors ==
    {[msg |-> <<"disk full">>, cause |-> <<>>],
     [msg |-> <<"can", SQ, "t save">>, cause |-> <<"io ", BS, " error">>]}

NoError == [msg |-> <<>>, cause |-> <<>>]

JsEvaluation == [msg |-> <<"JsEvaluation">>, cause |-> <<>>]

\* {:?} of an anyhow::Error: the message, then the chain of causes
DebugFmt(e) ==
    IF e.cause = <<>> THEN e.msg
    ELSE e.msg \o <<NL, NL, "Caused by:", NL, "    ">> \o e.cause

\* ------------------------------------------------------------- responses
NoResponse == [kind |-> "None", msg |-> <<>>, shutdown |-> FALSE]

ErrorTexts == {<<"bad move">>, <<"a", DQ, "b", SQ, "c">>}

\* the responses the engine's execute can return
EngineResponses ==
    [kind : {"Ok"}, msg : {<<>>}, shutdown : BOOLEAN]
    \cup [kind : {"Error"}, msg : ErrorTexts, shutdown : BOOLEAN]

\* ResponseTrait::new_with_error of the engine
NewWithError(msg) == [kind |-> "Error", msg |-> msg, shutdown |-> errShutdown]

Ok(v) == [ok |-> TRUE, val |-> v, err |-> NoError]
Err(e) == [ok |-> FALSE, val |-> NoResponse, err |-> e]

ExecuteOutcomes == {Ok(r) : r \in EngineResponses} \cup {Err(e) : e \in Errors}

StopOutcomes == {Ok(r) : r \in EngineResponses} \cup {Err(e) : e \in Errors}

HtmlOutcomes ==
    {[ok |-> TRUE, val |-> "<html>ok</html>", err |-> NoError]}
    \cup {[ok |-> FALSE, val |-> "", err |-> e] : e \in Errors}

BuildError == [msg |-> <<"Initialization">>, cause |-> <<>>]

\* the Result<()> returned by run_engine_with_webview (set: it has returned)
NoResult == [set |-> FALSE, ok |-> FALSE, err |-> NoError]
Success == [set |-> TRUE, ok |-> TRUE, err |-> NoError]
Failure(e) == [set |-> TRUE, ok |-> FALSE, err |-> e]

\* the Result<()> returned by the handler closure
HandlerOk == [ok |-> TRUE, err |-> NoError]
HandlerErr(e) == [ok |-> FALSE, err |-> e]

\* --------------------------------------------------------------- actions
\* the messages the page can post, and what from_str makes of them
PageMessages == {"{\"Ping\":{}}", "{\"Quit\":{}}", "not-json"}

NoAction == "none"

FromStr(m) ==
    IF m = "{\"Ping\":{}}" THEN [ok |-> TRUE, val |-> "Ping"]
    ELSE IF m = "{\"Quit\":{}}" THEN [ok |-> TRUE, val |-> "Quit"]
    ELSE [ok |-> FALSE, val |-> NoAction]

\* -------------------------------------------------------------- encoders
\* serde_json's encoding of a string
JsonPiece(c) ==
    IF c = DQ THEN <<BS, DQ>>
    ELSE IF c = BS THEN <<BS, BS>>
    ELSE IF c = NL THEN <<BS, "n">>
    ELSE <<c>>

RECURSIVE JsonPieces(_)
JsonPieces(s) ==
    IF s = <<>> THEN <<>> ELSE JsonPiece(Head(s)) \o JsonPieces(Tail(s))

JsonString(s) == <<DQ>> \o JsonPieces(s) \o <<DQ>>

\* serde_json::ser::to_string of a response
ToString(r) ==
    <<"{", DQ, "kind", DQ, ":">>
    \o (IF r.kind = "Ok" THEN <<DQ, "Ok", DQ>>
        ELSE <<"{", DQ, "Error", DQ, ":">> \o JsonString(r.msg) \o <<"}">>)
    \o <<",", DQ, "shutdown", DQ, ":",
         IF r.shutdown THEN "true" ELSE "false", "}">>

\* web_view::escape: a single-quoted JavaScript string literal
EscapePiece(c) ==
    IF c = BS THEN <<BS, BS>>
    ELSE IF c = SQ THEN <<BS, SQ>>
    ELSE IF c = NL THEN <<BS, "n">>
    ELSE <<c>>

RECURSIVE EscapePieces(_)
EscapePieces(s) ==
    IF s = <<>> THEN <<>> ELSE EscapePiece(Head(s)) \o EscapePieces(Tail(s))

Escape(s) == <<SQ>> \o EscapePieces(s) \o <<SQ>>

RespondScript(rsjs) == <<"respond(">> \o rsjs \o <<");">>

\* ----------------------------------------------------------------- trace
Call(op, val) == [op |-> op, val |-> val]

Init ==
    /\ pc = "start"
    /\ params \in ParamsSet
    /\ errShutdown \in BOOLEAN
    /\ html = ""
    /\ window = NoWindow
    /\ arg = ""
    /\ action = NoAction
    /\ response = NoResponse
    /\ result = HandlerOk
    /\ shouldExit = FALSE
    /\ delivered = 0
    /\ posted = 0
    /\ runResult = NoResult
    /\ trace = <<>>

\* mutant: a failure of initial_html is replaced by an empty page
AfterInitialHtmlIgnores(out) ==
    [pc |-> "build", html |-> out.val, runResult |-> NoResult]

\* line 64: let initial_html = self.engine.initial_html()?;
AfterInitialHtml(out) ==
    IF out.ok THEN [pc |-> "build", html |-> out.val, runResult |-> NoResult]
    ELSE [pc |-> "done", html |-> "", runResult |-> Failure(out.err)]

InitialHtml ==
    /\ pc = "start"
    /\ \E out \in HtmlOutcomes :
        /\ trace' = Append(trace, Call("initial_html", out))
        /\ pc' = AfterInitialHtml(out).pc
        /\ html' = AfterInitialHtml(out).html
        /\ runResult' = AfterInitialHtml(out).runResult
    /\ UNCHANGED <<params, errShutdown, window, arg, action, response, result,
                   shouldExit, delivered, posted>>

\* mutant: a failure of build() is not returned, the loop is entered
AfterBuildIgnores(ok) ==
    [pc |-> "loop", window |-> BuildWindow(params, html), runResult |-> NoResult]

\* lines 65-120: web_view::builder() ... .build()?
AfterBuild(ok) ==
    IF ok THEN [pc |-> "loop", window |-> BuildWindow(params, html),
                runResult |-> NoResult]
    ELSE [pc |-> "done", window |-> NoWindow, runResult |-> Failure(BuildError)]

Build ==
    /\ pc = "build"
    /\ \E ok \in BOOLEAN :
        /\ trace' = Append(trace, Call("build", ok))
        /\ pc' = AfterBuild(ok).pc
        /\ window' = AfterBuild(ok).window
        /\ runResult' = AfterBuild(ok).runResult
    /\ UNCHANGED <<params, errShutdown, html, arg, action, response, result,
                   shouldExit, delivered, posted>>

\* the page posts a message (external.invoke) while the window is open; it
\* waits until the loop dispatches it
PagePost ==
    /\ pc \in {"loop", "decode", "execute", "inspect", "return", "step_end"}
    /\ posted < MaxMessages
    /\ posted' = posted + 1
    /\ UNCHANGED <<pc, params, errShutdown, html, window, arg, action, response,
                   result, shouldExit, delivered, runResult, trace>>

\* line 121, one step of webview.run(): the loop takes a posted message and
\* calls the invoke handler (line 72) with it
Deliver(m) ==
    /\ pc = "loop"
    /\ delivered < posted
    /\ delivered' = delivered + 1
    /\ arg' = m
    /\ trace' = Append(trace, Call("message", m))
    /\ pc' = "decode"
    /\ UNCHANGED <<params, errShutdown, html, window, action, response, result,
                   shouldExit, posted, runResult>>

\* line 121, one step of webview.run(): the user closes the window
UserClose ==
    /\ pc = "loop"
    /\ shouldExit' = TRUE
    /\ trace' = Append(trace, Call("user_close", ""))
    /\ pc' = "step_end"
    /\ UNCHANGED <<params, errShutdown, html, window, arg, action, response,
                   result, delivered, posted, runResult>>

\* lines 74-76: the raw message is traced when params.verbose
VerboseTrace(m) ==
    IF params.verbose THEN <<Call("log_trace", m)>> ELSE <<>>

\* mutant: a message that cannot be decoded is logged and skipped
AfterDecodeSkips(m) ==
    IF FromStr(m).ok
    THEN [pc |-> "execute", action |-> FromStr(m).val, calls |-> <<>>]
    ELSE [pc |-> "return", action |-> NoAction,
          calls |-> <<Call("log_error", "cannot deserialise")>>]

\* lines 77-80: from_str(..).unwrap_or_else(|e| { web_error!; panic! })
AfterDecode(m) ==
    IF FromStr(m).ok
    THEN [pc |-> "execute", action |-> FromStr(m).val, calls |-> <<>>]
    ELSE [pc |-> "aborted", action |-> NoAction,
          calls |-> <<Call("log_error", "cannot deserialise"),
                      Call("panic", "cannot deserialise")>>]

\* lines 73-82
Decode ==
    /\ pc = "decode"
    /\ trace' = trace \o VerboseTrace(arg) \o AfterDecode(arg).calls
    /\ action' = AfterDecode(arg).action
    /\ pc' = AfterDecode(arg).pc
    /\ UNCHANGED <<params, errShutdown, html, window, arg, response, result,
                   shouldExit, delivered, posted, runResult>>

\* line 89: format!("bad execution: {:?}", &e)
BadExecution(e) == <<"bad execution: ">> \o DebugFmt(e)

\* mutant: the synthesized response drops the description of the failure
ExecuteResponseNoDescription(out) ==
    IF out.ok THEN out.val ELSE NewWithError(<<"bad execution">>)

\* mutant: the failure of execute is returned from the handler with `?`
ExecuteResultPropagates(out) ==
    IF out.ok THEN HandlerOk ELSE HandlerErr(out.err)

\* lines 83-90: execute(action).unwrap_or_else(|e| { web_error!; new_with_error })
ExecuteResponse(out) ==
    IF out.ok THEN out.val ELSE NewWithError(BadExecution(out.err))

ExecuteLog(out) ==
    IF out.ok THEN <<>> ELSE <<Call("log_error", BadExecution(out.err))>>

\* what execute's failure makes of the handler: nothing (it is replaced)
ExecuteResult(out) == HandlerOk

Execute ==
    /\ pc = "execute"
    /\ \E out \in ExecuteOutcomes :
        /\ response' = ExecuteResponse(out)
        /\ result' = ExecuteResult(out)
        /\ trace' = trace
                    \o <<Call("execute", [action |-> action, out |-> out])>>
                    \o ExecuteLog(out)
                    \o <<Call("response", ExecuteResponse(out))>>
        /\ pc' = IF ExecuteResult(out).ok THEN "inspect" ELSE "return"
    /\ UNCHANGED <<params, errShutdown, html, window, arg, action, shouldExit,
                   delivered, posted, runResult>>

\* mutant: webview.exit() is called before the error is logged
ShutdownCallsExitFirst(r) ==
    <<Call("exit", "")>>
    \o (IF r.kind = "Error"
        THEN <<Call("log_error", <<"system error: ">> \o r.msg)>> ELSE <<>>)

\* lines 94-97: log the error of a shutdown response, then webview.exit()
ShutdownCalls(r) ==
    (IF r.kind = "Error"
     THEN <<Call("log_error", <<"system error: ">> \o r.msg)>> ELSE <<>>)
    \o <<Call("exit", "")>>

\* mutant: the serialized response is passed to the page without escape
RespondCallsUnescaped(r, evalOk) ==
    <<Call("to_string", [of |-> r, ok |-> TRUE]),
      Call("eval", [script |-> RespondScript(ToString(r)), ok |-> evalOk])>>

\* lines 99-116, to_string succeeded: escape and eval of respond(..)
RespondCalls(r, evalOk) ==
    <<Call("to_string", [of |-> r, ok |-> TRUE]),
      Call("eval", [script |-> RespondScript(Escape(ToString(r))),
                    ok |-> evalOk])>>

\* lines 99-102, to_string failed: web_error!, panic!
SerialisePanic(r) ==
    <<Call("to_string", [of |-> r, ok |-> FALSE]),
      Call("log_error", "cannot serialise"),
      Call("panic", "cannot serialise")>>

\* mutant: the failure of eval is dropped (no `?` at line 116)
HandleIgnoresEvalFailure(r, serOk, evalOk) ==
    IF r.shutdown
    THEN [calls |-> ShutdownCalls(r), exit |-> TRUE, result |-> HandlerOk,
          pc |-> "return"]
    ELSE IF ~serOk
    THEN [calls |-> SerialisePanic(r), exit |-> FALSE, result |-> HandlerOk,
          pc |-> "aborted"]
    ELSE [calls |-> RespondCalls(r, evalOk), exit |-> FALSE,
          result |-> HandlerOk, pc |-> "return"]

\* mutant: a shutdown response is logged but webview.exit() is not called
HandleNoExit(r, serOk, evalOk) ==
    IF r.shutdown
    THEN [calls |-> IF r.kind = "Error"
                    THEN <<Call("log_error", <<"system error: ">> \o r.msg)>>
                    ELSE <<>>,
          exit |-> FALSE, result |-> HandlerOk, pc |-> "return"]
    ELSE IF ~serOk
    THEN [calls |-> SerialisePanic(r), exit |-> FALSE, result |-> HandlerOk,
          pc |-> "aborted"]
    ELSE [calls |-> RespondCalls(r, evalOk), exit |-> FALSE,
          result |-> IF evalOk THEN HandlerOk ELSE HandlerErr(JsEvaluation),
          pc |-> "return"]

\* mutant: the response is serialized before shutdown_required() is looked at
HandleSerialisesFirst(r, serOk, evalOk) ==
    IF ~serOk
    THEN [calls |-> SerialisePanic(r), exit |-> FALSE, result |-> HandlerOk,
          pc |-> "aborted"]
    ELSE IF r.shutdown
    THEN [calls |-> <<Call("to_string", [of |-> r, ok |-> TRUE])>>
                    \o ShutdownCalls(r),
          exit |-> TRUE, result |-> HandlerOk, pc |-> "return"]
    ELSE [calls |-> RespondCalls(r, evalOk), exit |-> FALSE,
          result |-> IF evalOk THEN HandlerOk ELSE HandlerErr(JsEvaluation),
          pc |-> "return"]

\* lines 92-118: what the handler does with the response; serOk and evalOk
\* are the results of to_string and of eval
Handle(r, serOk, evalOk) ==
    IF r.shutdown
    THEN [calls |-> ShutdownCalls(r), exit |-> TRUE, result |-> HandlerOk,
          pc |-> "return"]
    ELSE IF ~serOk
    THEN [calls |-> SerialisePanic(r), exit |-> FALSE, result |-> HandlerOk,
          pc |-> "aborted"]
    ELSE [calls |-> RespondCalls(r, evalOk), exit |-> FALSE,
          result |-> IF evalOk THEN HandlerOk ELSE HandlerErr(JsEvaluation),
          pc |-> "return"]

Inspect ==
    /\ pc = "inspect"
    /\ \E serOk \in BOOLEAN, evalOk \in BOOLEAN :
        /\ trace' = trace \o Handle(response, serOk, evalOk).calls
        /\ shouldExit' = (shouldExit \/ Handle(response, serOk, evalOk).exit)
        /\ result' = Handle(response, serOk, evalOk).result
        /\ pc' = Handle(response, serOk, evalOk).pc
    /\ UNCHANGED <<params, errShutdown, html, window, arg, action, response,
                   delivered, posted, runResult>>

\* mutant: the handler's action and response are kept after it returns
ReturnRetains ==
    /\ pc = "return"
    /\ trace' = Append(trace, Call("return", result.ok))
    /\ pc' = "step_end"
    /\ UNCHANGED <<params, errShutdown, html, window, arg, action, response,
                   result, shouldExit, delivered, posted, runResult>>

\* lines 116-119: the handler returns; its locals are dropped
Return ==
    /\ pc = "return"
    /\ trace' = Append(trace, Call("return", result.ok))
    /\ arg' = ""
    /\ action' = NoAction
    /\ response' = NoResponse
    /\ pc' = "step_end"
    /\ UNCHANGED <<params, errShutdown, html, window, result, shouldExit,
                   delivered, posted, runResult>>

\* mutant: the engine is stopped also when the loop ended with a failure
AfterStepStopsOnFailure(exit, res) ==
    IF exit \/ ~res.ok THEN [pc |-> "stop", runResult |-> NoResult]
    ELSE [pc |-> "loop", runResult |-> NoResult]

\* mutant: run returns as soon as the loop ends, the engine is not stopped
AfterStepSkipsStop(exit, res) ==
    IF exit THEN [pc |-> "done", runResult |-> Success]
    ELSE IF ~res.ok THEN [pc |-> "done", runResult |-> Failure(res.err)]
    ELSE [pc |-> "loop", runResult |-> NoResult]

\* line 121, webview.run()?: after each step the loop ends when the window
\* was told to exit, fails with the handler's failure, or goes on
AfterStep(exit, res) ==
    IF exit THEN [pc |-> "stop", runResult |-> NoResult]
    ELSE IF ~res.ok THEN [pc |-> "done", runResult |-> Failure(res.err)]
    ELSE [pc |-> "loop", runResult |-> NoResult]

EndStep ==
    /\ pc = "step_end"
    /\ pc' = AfterStep(shouldExit, result).pc
    /\ runResult' = AfterStep(shouldExit, result).runResult
    /\ UNCHANGED <<params, errShutdown, html, window, arg, action, response,
                   result, shouldExit, delivered, posted, trace>>

\* mutant: the engine is stopped and the event loop is run again
AfterStopReturnsToLoop(out) == [pc |-> "loop", runResult |-> NoResult]

\* mutant: the failure of handle_event is returned with `?`
AfterStopPropagates(out) ==
    IF out.ok THEN [pc |-> "finish", runResult |-> NoResult]
    ELSE [pc |-> "done", runResult |-> Failure(out.err)]

\* line 122: let _response = rres.engine.handle_event(&Event::Stop);
AfterStop(out) == [pc |-> "finish", runResult |-> NoResult]

StopEngine ==
    /\ pc = "stop"
    /\ \E out \in StopOutcomes :
        /\ trace' = Append(trace, Call("handle_event",
                                       [event |-> "Stop", out |-> out]))
        /\ pc' = AfterStop(out).pc
        /\ runResult' = AfterStop(out).runResult
    /\ UNCHANGED <<params, errShutdown, html, window, arg, action, response,
                   result, shouldExit, delivered, posted>>

\* line 123: Ok(())
Finish ==
    /\ pc = "finish"
    /\ runResult' = Success
    /\ pc' = "done"
    /\ UNCHANGED <<params, errShutdown, html, window, arg, action, response,
                   result, shouldExit, delivered, posted, trace>>

Next ==
    \/ InitialHtml
    \/ Build
    \/ PagePost
    \/ \E m \in PageMessages : Deliver(m)
    \/ UserClose
    \/ Decode
    \/ Execute
    \/ Inspect
    \/ Return
    \/ EndStep
    \/ StopEngine
    \/ Finish

Spec == Init /\ [][Next]_vars

\* the steps of the program itself are taken when they can be; what the
\* page and the user do (Deliver, UserClose) is not
FairSpec ==
    /\ Spec
    /\ WF_vars(InitialHtml) /\ WF_vars(Build) /\ WF_vars(Decode)
    /\ WF_vars(Execute) /\ WF_vars(Inspect) /\ WF_vars(Return)
    /\ WF_vars(EndStep) /\ WF_vars(StopEngine) /\ WF_vars(Finish)

TypeOK ==
    /\ pc \in {"start", "build", "loop", "decode", "execute", "inspect",
               "return", "step_end", "stop", "finish", "done", "aborted"}
    /\ posted \in 0..MaxMessages
    /\ delivered \in 0..posted
    /\ shouldExit \in BOOLEAN

\* ------------------------------------------------------ reading the trace
Idx == 1..Len(trace)

Is(i, op) == i \in Idx /\ trace[i].op = op

After(i) == (i + 1)..Len(trace)

\* the last entry `op` before entry j (0: none)
LastBefore(j, op) ==
    LET S == {i \in 1..(j - 1) : Is(i, op)}
    IN  IF S = {} THEN 0 ELSE CHOOSE i \in S : \A k \in S : k <= i

\* the respond(..) calls made into the page
Evals == {j \in Idx : Is(j, "eval")}

\* the handler invocations that returned and whose response was non-shutdown
ReturnedNonShutdown ==
    {k \in Idx : /\ Is(k, "return")
                 /\ LastBefore(k, "response") # 0
                 /\ ~trace[LastBefore(k, "response")].val.shutdown}

StopCalls == {i \in Idx : Is(i, "handle_event") /\ trace[i].val.event = "Stop"}

ClosedByResponse == \E i \in Idx : Is(i, "exit")

ClosedByUser == \E i \in Idx : Is(i, "user_close")

\* what the handler has done with the response of entry i, once it has
\* acted on it: exit and no respond when shutdown is required, else
\* to_string and, when that succeeds, respond with the escaped text
Treated(i) ==
    LET r == trace[i].val
    IN  IF r.shutdown
        THEN /\ \E j \in After(i) : Is(j, "exit") /\ j <= i + 2
             /\ \A j \in After(i) : ~Is(j, "eval") /\ ~Is(j, "to_string")
        ELSE /\ Is(i + 1, "to_string")
             /\ trace[i + 1].val.of = r
             /\ IF trace[i + 1].val.ok
                THEN /\ Is(i + 2, "eval")
                     /\ trace[i + 2].val.script = RespondScript(Escape(ToString(r)))
                ELSE Is(i + 2, "log_error") /\ Is(i + 3, "panic")

\* ---------------------------------------------------------------- claims
\* C1: once a handled message has a response with shutdown_required() true,
\* the window is closed (exit() is called) and no respond call is made from
\* then on, neither for that response nor for any later message.
C1_ShutdownClosesAndSilences ==
    \A i \in Idx :
        (Is(i, "response") /\ trace[i].val.shutdown) =>
            /\ \A j \in After(i) : ~Is(j, "eval")
            /\ (pc # "inspect" =>
                    shouldExit /\ \E j \in After(i) : Is(j, "exit"))

\* a run that answered one message, then got a shutdown response and ended
C1_Witness ==
    /\ pc = "done"
    /\ \E i \in Idx : /\ Is(i, "response") /\ trace[i].val.shutdown
                      /\ \E j \in 1..i : Is(j, "eval")

\* C2: every handler invocation that returned with a non-shutdown response
\* made exactly one respond call, whose argument is the escaped JSON text
\* of that response; every respond call belongs to such a response; outside
\* the handler the number of respond calls equals the number of such
\* invocations.
C2_RespondOncePerNonShutdown ==
    /\ \A k \in Idx :
        Is(k, "return") =>
            LET r == LastBefore(k, "response")
            IN  /\ r # 0
                /\ ~trace[r].val.shutdown =>
                       Cardinality({j \in r..k : Is(j, "eval")}) = 1
    /\ \A j \in Evals :
        LET r == LastBefore(j, "response")
        IN  /\ r # 0
            /\ j = r + 2
            /\ ~trace[r].val.shutdown
            /\ trace[j].val.script =
                   RespondScript(Escape(ToString(trace[r].val)))
    /\ (pc # "return" =>
            Cardinality(Evals) = Cardinality(ReturnedNonShutdown))

\* two messages answered, one of them with text that escape had to change
C2_Witness ==
    /\ pc = "done"
    /\ Cardinality(Evals) = 2
    /\ \E j \in Evals : Contains(trace[j].val.script, <<BS, BS, DQ>>)

\* C3: a failure E of execute is replaced by new_with_error's response,
\* whose kind is Error and whose message contains the description of E and
\* whose shutdown_required() is the engine's; this response, like every
\* response, is then passed to respond when it does not require shutdown
\* and closes the window when it does.
C3_ExecuteFailureSynthesized ==
    /\ \A i \in Idx :
        (Is(i, "execute") /\ ~trace[i].val.out.ok) =>
            /\ Is(i + 1, "log_error")
            /\ Is(i + 2, "response")
            /\ trace[i + 2].val.kind = "Error"
            /\ Contains(trace[i + 2].val.msg, DebugFmt(trace[i].val.out.err))
            /\ trace[i + 2].val.shutdown = errShutdown
    /\ \A i \in Idx :
        (Is(i, "execute") /\ trace[i].val.out.ok) =>
            Is(i + 1, "response") /\ trace[i + 1].val = trace[i].val.out.val
    /\ \A i \in Idx :
        (Is(i, "response") /\ (i < Len(trace) \/ pc # "inspect")) => Treated(i)

\* execute failed with an error that has a cause, and the page got the
\* synthesized response
C3_Witness ==
    \E i \in Idx :
        /\ Is(i, "execute") /\ ~trace[i].val.out.ok
        /\ trace[i].val.out.err.cause # <<>>
        /\ Is(i + 4, "eval") /\ trace[i + 4].val.ok
        /\ Contains(trace[i + 4].val.script, <<"bad execution: ", "can">>)

\* C4: a failure of execute never becomes the result of run and does not
\* end the run: when the synthesized response does not require shutdown the
\* handler returns success exactly when respond succeeded, and after such a
\* return the loop is still running and takes the next event.
C4_ExecuteFailureRecovered ==
    /\ (runResult.set /\ ~runResult.ok /\ \E i \in Idx : Is(i, "execute")) =>
            /\ runResult.err = JsEvaluation
            /\ \E j \in Evals : ~trace[j].val.ok
    /\ \A k \in Idx :
        LET i == LastBefore(k, "execute")
        IN  (/\ Is(k, "return")
             /\ i # 0
             /\ ~trace[i].val.out.ok
             /\ ~trace[i + 2].val.shutdown) =>
                /\ Is(i + 4, "eval")
                /\ trace[k].val = trace[i + 4].val.ok
                /\ trace[k].val =>
                    IF k = Len(trace)
                    THEN /\ pc \in {"step_end", "loop"}
                         /\ ~shouldExit
                         /\ ~runResult.set
                    ELSE Is(k + 1, "message") \/ Is(k + 1, "user_close")

\* execute failed for one message; the next message was executed and
\* answered, and run returned success in the end
C4_Witness ==
    /\ runResult = Success
    /\ \E i \in Idx :
        /\ Is(i, "execute") /\ ~trace[i].val.out.ok
        /\ \E j \in After(i) :
             /\ Is(j, "execute") /\ trace[j].val.out.ok
             /\ \E k \in After(j) : Is(k, "eval") /\ trace[k].val.ok

\* C5: the engine gets the Stop event at most once, and exactly once when
\* run has left the loop of a closed window, whether exit() or the user
\* closed it.
C5_StopExactlyOnce ==
    /\ Cardinality(StopCalls) <= 1
    /\ (pc \in {"finish", "done"} /\ (ClosedByResponse \/ ClosedByUser)) =>
            Cardinality(StopCalls) = 1

\* the user closed the window after a message was answered
C5_Witness ==
    /\ pc = "done"
    /\ ClosedByUser
    /\ ~ClosedByResponse
    /\ Evals # {}
    /\ Cardinality(StopCalls) = 1

ShutdownProduced == \E i \in Idx : Is(i, "response") /\ trace[i].val.shutdown

\* the window was closed and, after that, the engine got the Stop event
ClosedThenStopped ==
    /\ shouldExit
    /\ \E c \in Idx, s \in Idx :
        /\ Is(c, "exit") \/ Is(c, "user_close")
        /\ Is(s, "handle_event")
        /\ c < s

\* C6: run has returned success only if the window was closed and then the
\* engine got Stop; and once a shutdown-required response has been produced
\* run eventually returns success.
C6_SuccessAfterCloseAndStop ==
    /\ [](runResult = Success => (pc = "done" /\ ClosedThenStopped))
    /\ (ShutdownProduced ~> (runResult = Success))

\* the page sent Quit, the engine answered Ok with shutdown required, and
\* run returned success
C6_Witness ==
    /\ runResult = Success
    /\ \E i \in Idx :
        /\ Is(i, "message") /\ trace[i].val = "{\"Quit\":{}}"
        /\ Is(i + 2, "response")
        /\ trace[i + 2].val.shutdown /\ trace[i + 2].val.kind = "Ok"
        /\ Is(i + 3, "exit")

\* C7: whatever handle_event(Stop) returns, nothing is done with it: it is
\* the last call of the run, and run then returns success.
C7_StopOutcomeDiscarded ==
    \A i \in Idx :
        Is(i, "handle_event") =>
            /\ i = Len(trace)
            /\ pc \in {"finish", "done"}
            /\ pc = "finish" => ~runResult.set
            /\ pc = "done" => runResult = Success

\* handle_event(Stop) failed and run returned success
C7_Witness ==
    /\ pc = "done"
    /\ runResult = Success
    /\ Is(Len(trace), "handle_event")
    /\ ~trace[Len(trace)].val.out.ok

\* C8: a message that cannot be decoded ends the process in the handler:
\* after it there is only the logging and the panic, no execute, no
\* respond and no further message.
C8_DecodeFailureTerminates ==
    \A i \in Idx :
        (Is(i, "message") /\ ~FromStr(trace[i].val).ok) =>
            IF pc = "decode" THEN i = Len(trace)
            ELSE /\ pc = "aborted"
                 /\ \E j \in After(i) : Is(j, "panic")
                 /\ \A j \in After(i) :
                        trace[j].op \in {"log_trace", "log_error", "panic"}

\* a malformed message arrived after a message had been answered
C8_Witness ==
    /\ pc = "aborted"
    /\ Evals # {}
    /\ \E i \in Idx : Is(i, "message") /\ trace[i].val = "not-json"

\* C9: to_string is only ever applied to the current response and only when
\* it does not require shutdown; when it fails the process ends there, with
\* the error logged and no respond call; a shutdown-required response is
\* never serialized.
C9_SerialiseFailureTerminates ==
    /\ \A i \in Idx :
        Is(i, "to_string") =>
            /\ Is(i - 1, "response")
            /\ trace[i - 1].val = trace[i].val.of
            /\ ~trace[i].val.of.shutdown
            /\ ~trace[i].val.ok =>
                /\ pc = "aborted"
                /\ Is(i + 1, "log_error")
                /\ Is(i + 2, "panic")
                /\ Len(trace) = i + 2
    /\ \A i \in Idx :
        (Is(i, "response") /\ trace[i].val.shutdown) =>
            \A j \in After(i) : ~Is(j, "to_string")

\* a response could not be serialized after a message had been answered
C9_Witness ==
    /\ pc = "aborted"
    /\ Evals # {}
    /\ \E i \in Idx : Is(i, "to_string") /\ ~trace[i].val.ok

\* C10: when initial_html or build() fails, run returns that failure and
\* nothing else happens: no window, no event loop, no execute.
C10_StartupFailureAborts ==
    /\ \A i \in Idx :
        (Is(i, "initial_html") /\ ~trace[i].val.ok) =>
            /\ pc = "done"
            /\ runResult = Failure(trace[i].val.err)
            /\ Len(trace) = 1
            /\ ~window.built
    /\ \A i \in Idx :
        (Is(i, "build") /\ ~trace[i].val) =>
            /\ pc = "done"
            /\ runResult = Failure(BuildError)
            /\ Len(trace) = 2
            /\ ~window.built

\* the engine produced its page and the window could not be built
C10_Witness ==
    /\ pc = "done"
    /\ Is(1, "initial_html") /\ trace[1].val.ok
    /\ Is(2, "build") /\ ~trace[2].val

\* C11: the handler returns a failure exactly when its respond call failed:
\* after an execute failure, after a shutdown response and after a
\* successful respond it returns success; and once the window is built, run
\* fails only with that injection failure.
C11_HandlerFailsOnlyOnInjection ==
    /\ \A k \in Idx :
        Is(k, "return") =>
            (~trace[k].val <=> (Is(k - 1, "eval") /\ ~trace[k - 1].val.ok))
    /\ pc = "return" =>
            (~result.ok <=> (Is(Len(trace), "eval") /\ ~trace[Len(trace)].val.ok))
    /\ ~result.ok => result.err = JsEvaluation
    /\ (runResult.set /\ ~runResult.ok /\ window.built) =>
            /\ runResult.err = JsEvaluation
            /\ Is(Len(trace), "return") /\ ~trace[Len(trace)].val

\* the handler returned success after an execute failure, then respond
\* failed for the next message and run returned that failure
C11_Witness ==
    /\ runResult = Failure(JsEvaluation)
    /\ \E i \in Idx :
        /\ Is(i, "execute") /\ ~trace[i].val.out.ok
        /\ \E k \in After(i) : Is(k, "return") /\ trace[k].val

\* C12: the window has the title, width, height and debug setting of the
\* params, is resizable, and shows the page initial_html returned; this
\* holds in every state after the build, whatever messages are handled.
C12_WindowBuiltFromParams ==
    IF window.built
    THEN /\ Is(1, "initial_html") /\ trace[1].val.ok
         /\ window = [title |-> params.title, content |-> trace[1].val.val,
                      width |-> params.width, height |-> params.height,
                      resizable |-> TRUE, debug |-> params.debug,
                      built |-> TRUE]
    ELSE window = NoWindow /\ \A i \in Idx : ~Is(i, "message")

\* the default 640 x 960 window titled App shows <html>ok</html> and has
\* answered a message
C12_Witness ==
    /\ pc = "done"
    /\ Evals # {}
    /\ window = [title |-> "App", content |-> "<html>ok</html>",
                 width |-> 640, height |-> 960, resizable |-> TRUE,
                 debug |-> FALSE, built |-> TRUE]

InHandler == pc \in {"decode", "execute", "inspect", "return"}

\* the messages given to the handler whose handling has not ended
InFlight ==
    {i \in Idx : /\ Is(i, "message")
                 /\ ~\E k \in After(i) : Is(k, "return") \/ Is(k, "panic")}

\* C13: at most one message is being handled at any time: the handler has
\* returned for a message before the next one is given to it, execute is
\* called once per message and for the action decoded from it, every
\* respond call answers the message handled last, and outside the handler
\* no message, action or response is held.
C13_OneActionInFlight ==
    /\ Cardinality(InFlight) <= 1
    /\ InFlight # {} <=> InHandler
    /\ \A i \in Idx :
        (Is(i, "message") /\ LastBefore(i, "message") # 0) =>
            \E k \in (LastBefore(i, "message") + 1)..(i - 1) : Is(k, "return")
    /\ \A i \in Idx :
        Is(i, "execute") =>
            LET m == LastBefore(i, "message")
            IN  /\ m # 0
                /\ trace[i].val.action = FromStr(trace[m].val).val
                /\ \A k \in (m + 1)..(i - 1) :
                        ~Is(k, "execute") /\ ~Is(k, "return")
    /\ \A j \in Evals :
        /\ LastBefore(j, "message") < LastBefore(j, "execute")
        /\ LastBefore(j, "execute") < LastBefore(j, "response")
        /\ \A k \in (LastBefore(j, "message") + 1)..(j - 1) : ~Is(k, "eval")
    /\ pc \in {"start", "build", "loop", "step_end", "stop", "finish", "done"} =>
            arg = "" /\ action = NoAction /\ response = NoResponse

\* the second message of the page waits while the first is being handled
C13_Witness ==
    /\ pc = "inspect"
    /\ delivered = 1
    /\ posted = 2
    /\ Cardinality(InFlight) = 1

\* entry i closes the window: a shutdown-required response, exit(), or the
\* user closing it
Closes(i) ==
    \/ Is(i, "exit")
    \/ Is(i, "user_close")
    \/ Is(i, "response") /\ trace[i].val.shutdown

\* C14: once the window is closed, by a shutdown-required response or by
\* the user, no message is given to the handler and execute is not called
\* again, also when the page had posted messages that were still waiting.
C14_NoMessageAfterClose ==
    /\ \A i \in Idx :
        Closes(i) =>
            \A j \in After(i) : ~Is(j, "message") /\ ~Is(j, "execute")
    /\ shouldExit => pc \in {"return", "step_end", "stop", "finish", "done"}

\* run ended after a shutdown response while a posted message was waiting
C14_Witness ==
    /\ pc = "done"
    /\ ClosedByResponse
    /\ delivered < posted
    /\ Cardinality({i \in Idx : Is(i, "execute")}) = delivered

\* C15: every shutdown-required response the handler has acted on closed
\* the window: when its kind is Error the message is logged as a system
\* error and exit() is the next call; when its kind is Ok exit() is the
\* next call and no error is logged.
C15_ShutdownAlwaysHonored ==
    \A i \in Idx :
        (/\ Is(i, "response") /\ trace[i].val.shutdown
         /\ (i < Len(trace) \/ pc # "inspect")) =>
            /\ shouldExit
            /\ IF trace[i].val.kind = "Error"
               THEN /\ Is(i + 1, "log_error")
                    /\ trace[i + 1].val = <<"system error: ">> \o trace[i].val.msg
                    /\ Is(i + 2, "exit")
               ELSE /\ Is(i + 1, "exit")
                    /\ \A j \in After(i) : ~Is(j, "log_error")

\* the engine returned an Error response that requires shutdown; it was
\* logged, the window closed and run returned
C15_Witness ==
    /\ pc = "done"
    /\ \E i \in Idx :
        /\ Is(i, "execute") /\ trace[i].val.out.ok
        /\ trace[i + 1].val.shutdown /\ trace[i + 1].val.kind = "Error"
        /\ Is(i + 2, "log_error") /\ Is(i + 3, "exit")

\* the state of the window lifecycle.  A run that fails at startup never
\* gets past Created (no window ever runs); Aborted (the process ended in a
\* panic) is not a state of
\* Created -> Running -> (Handling -> Running)* -> Closing -> Stopped
Lifecycle ==
    IF pc \in {"start", "build"} THEN "Created"
    ELSE IF pc = "loop" THEN "Running"
    ELSE IF InHandler THEN "Handling"
    ELSE IF pc = "step_end"
         THEN (IF shouldExit \/ ~result.ok THEN "Closing" ELSE "Running")
    ELSE IF pc = "stop" THEN "Closing"
    ELSE IF pc = "finish" THEN "Stopped"
    ELSE IF pc = "done" THEN (IF window.built THEN "Stopped" ELSE "Created")
    ELSE "Aborted"

\* the moves along Created -> Running -> (Handling -> Running)* -> Closing
\* -> Stopped, Handling -> Closing included
PathMoves ==
    {<<"Created", "Running">>, <<"Running", "Handling">>,
     <<"Handling", "Running">>, <<"Handling", "Closing">>,
     <<"Running", "Closing">>, <<"Closing", "Stopped">>}

OnPath == Lifecycle' = Lifecycle \/ <<Lifecycle, Lifecycle'>> \in PathMoves

\* the handler panics: the process ends while a message is being handled
HandlerPanics ==
    /\ Lifecycle = "Handling" /\ Lifecycle' = "Aborted"
    /\ trace'[Len(trace')].op = "panic"

\* C16 as stated: every step of the lifecycle is a move along Created ->
\* Running -> (Handling -> Running)* -> Closing -> Stopped; in particular
\* Handling always goes back to Running or on to Closing.
C16_OnlyPathMoves == [][OnPath]_vars

\* C16, amended: every step is a move along that path, except that a panic
\* of the handler (a message that cannot be decoded, a response that cannot
\* be serialized) ends the process from Handling; a message is handled only
\* from Running and nothing leaves Closing or Stopped for Running or
\* Handling.
C16_LifecycleMoves == [][OnPath \/ HandlerPanics]_vars

\* two messages were handled, the window was closed and run returned
C16_Witness ==
    /\ Lifecycle = "Stopped"
    /\ runResult = Success
    /\ Cardinality({k \in Idx : Is(k, "return")}) = 2

\* C17: initial_html is the first call of every run and is made once; every
\* execute comes after it; handle_event(Stop) comes after every execute and
\* every respond, when no message is being handled, and is followed by
\* neither.
C17_EngineCallOrder ==
    /\ pc # "start" => Is(1, "initial_html")
    /\ \A i \in Idx : Is(i, "initial_html") => i = 1
    /\ \A i \in Idx :
        Is(i, "execute") => (i > 1 /\ Is(1, "initial_html") /\ trace[1].val.ok)
    /\ \A s \in StopCalls :
        /\ \A j \in Idx : (Is(j, "execute") \/ Is(j, "eval")) => j < s
        /\ \A j \in After(s) : ~Is(j, "message")
        /\ InFlight = {} /\ ~InHandler

\* a run with two execute calls that ended with the Stop event
C17_Witness ==
    /\ runResult = Success
    /\ Cardinality({i \in Idx : Is(i, "execute")}) = 2
    /\ Evals # {}
    /\ StopCalls = {Len(trace)}

\* C18: the engine gets Stop at most once, and only after the event loop
\* ended without a failure: when run returns a failure (initial_html, the
\* build, or a respond injection failed) no Stop event was delivered.
C18_NoStopOnFailure ==
    /\ Cardinality(StopCalls) <= 1
    /\ (runResult.set /\ ~runResult.ok) => StopCalls = {}
    /\ StopCalls # {} =>
            /\ window.built
            /\ shouldExit
            /\ result.ok
            /\ \A j \in Evals : trace[j].val.ok

\* one message was answered, then a respond call failed: run returned the
\* failure and the engine was not stopped
C18_Witness ==
    /\ pc = "done"
    /\ runResult = Failure(JsEvaluation)
    /\ StopCalls = {}
    /\ \E j \in Evals : trace[j].val.ok

====
